---------------------------- MODULE Spec2Model ----------------------------
(***************************************************************************)
(* MonuMentAR ML_Training: dataset layout, image ingestion, dataset        *)
(* validation, training pipeline and Core ML export, modelled from         *)
(* collect_training_data.py, train_monument_model_fixed.py, setup.py and   *)
(* create_simple_model.py.                                                 *)
(*                                                                         *)
(* The filesystem is a partial function from paths (tuples of names,       *)
(* relative to the working directory, which is the ML_Training directory)  *)
(* to nodes.  Names are strings; Chars gives each name's code points, so   *)
(* that sorting, suffix extraction and lower-casing are computed.          *)
(***************************************************************************)
EXTENDS Integers, Sequences, FiniteSets, TLC

VARIABLES
    fs,         \* the filesystem: [existing paths -> node]
    op,         \* the last completed operation and what it returned
    pc,         \* the phase of the trainer's main()
    net,        \* the in-memory Keras model the trainer holds
    batch,      \* the running FlickrCollector.search_and_download loop
    persisted,  \* history: paths written by an ingestion operation
    pre,        \* history: the filesystem the last collector, trainer or setup.py
                \* operation started from (not kept for the Flickr script's steps)
    arg,        \* history: the inputs of the last operation
    fit,        \* the epoch loop of model.fit and its three callbacks
    px          \* a pixel value and what training and the artifact make of it

vars == <<fs, op, pc, net, batch, persisted, pre, arg, fit, px>>

---------------------------------------------------------------------------
(* Names and their characters *)

Chars ==
    "notre_dame_basilica" :> <<110,111,116,114,101,95,100,97,109,101,95,98,97,115,105,108,105,99,97>> @@
    "olympic_stadium_tower" :> <<111,108,121,109,112,105,99,95,115,116,97,100,105,117,109,95,116,111,119,101,114>> @@
    "mount_royal_cross" :> <<109,111,117,110,116,95,114,111,121,97,108,95,99,114,111,115,115>> @@
    "old_port_clock_tower" :> <<111,108,100,95,112,111,114,116,95,99,108,111,99,107,95,116,111,119,101,114>> @@
    "saint_josephs_oratory" :> <<115,97,105,110,116,95,106,111,115,101,112,104,115,95,111,114,97,116,111,114,121>> @@
    "background" :> <<98,97,99,107,103,114,111,117,110,100>> @@
    "street_art" :> <<115,116,114,101,101,116,95,97,114,116>> @@
    "a.jpg" :> <<97,46,106,112,103>> @@
    "B.PNG" :> <<66,46,80,78,71>> @@
    "c.jpeg" :> <<99,46,106,112,101,103>> @@
    "notes.txt" :> <<110,111,116,101,115,46,116,120,116>> @@
    ".DS_Store" :> <<46,68,83,95,83,116,111,114,101>>

\* Python's str comparison: by code point, a proper prefix sorts first.
RECURSIVE SeqLess(_, _)
SeqLess(a, b) ==
    IF b = <<>> THEN FALSE
    ELSE IF a = <<>> THEN TRUE
    ELSE IF Head(a) # Head(b) THEN Head(a) < Head(b)
    ELSE SeqLess(Tail(a), Tail(b))

StrLess(x, y) == SeqLess(Chars[x], Chars[y])

\* sorted(names): the ascending sequence of a set of names.
RECURSIVE SortedSeq(_)
SortedSeq(S) ==
    IF S = {} THEN <<>>
    ELSE LET m == CHOOSE x \in S : \A y \in S \ {x} : StrLess(x, y)
         IN  <<m>> \o SortedSeq(S \ {m})

\* str.lower() on ASCII: 'A'..'Z' map to 'a'..'z'.
LowerChar(c) == IF c >= 65 /\ c <= 90 THEN c + 32 ELSE c
Lower(s) == [i \in 1..Len(s) |-> LowerChar(s[i])]

\* pathlib's PurePath.suffix: from the last '.' of the name, unless that dot
\* leads the name or ends it.
LastDot(s) ==
    LET D == {i \in 1..Len(s) : s[i] = 46}
    IN  IF D = {} THEN 0 ELSE CHOOSE i \in D : \A j \in D : j <= i
Suffix(name) ==
    LET s == Chars[name]
        i == LastDot(s)
    IN  IF i > 1 /\ i < Len(s) THEN SubSeq(s, i, Len(s)) ELSE <<>>

---------------------------------------------------------------------------
(* The label lists the source files declare *)

collector_landmarks ==
    <<"notre_dame_basilica", "olympic_stadium_tower", "mount_royal_cross",
      "old_port_clock_tower", "saint_josephs_oratory">>

landmarks ==
    <<"notre_dame_basilica", "olympic_stadium_tower", "mount_royal_cross",
      "old_port_clock_tower", "saint_josephs_oratory">>

Range(s) == {s[i] : i \in 1..Len(s)}

\* The registered labels: the landmarks and the background class.
Labels == Range(landmarks) \cup {"background"}

Splits == <<"train", "validation">>

---------------------------------------------------------------------------
(* Filesystem *)

data_dir == <<"training_data">>
model_output_dir == <<"models">>

Dir == [kind |-> "dir", w |-> 0, h |-> 0, mode |-> "", fmt |-> "", labels |-> <<>>, meta |-> <<>>]
TextFile == [kind |-> "file", w |-> 0, h |-> 0, mode |-> "", fmt |-> "text", labels |-> <<>>, meta |-> <<>>]
ImageFile(w, h, mode, fmt) ==
    [kind |-> "file", w |-> w, h |-> h, mode |-> mode, fmt |-> fmt, labels |-> <<>>, meta |-> <<>>]

Parent(p) == SubSeq(p, 1, Len(p) - 1)
Name(p) == p[Len(p)]
Exists(f, p) == p \in DOMAIN f
IsDir(f, p) == p = <<>> \/ (p \in DOMAIN f /\ f[p].kind = "dir")
Children(f, p) == {q \in DOMAIN f : Len(q) = Len(p) + 1 /\ Parent(q) = p}

\* pathlib.Path.mkdir(parents, exist_ok): the filesystem afterwards and whether
\* it raised (FileExistsError, FileNotFoundError or NotADirectoryError).
RECURSIVE Mkdir(_, _, _, _)
Mkdir(f, p, parents, exist_ok) ==
    IF Exists(f, p)
    THEN [fs |-> f, err |-> ~(exist_ok /\ f[p].kind = "dir")]
    ELSE IF IsDir(f, Parent(p))
    THEN [fs |-> (p :> Dir) @@ f, err |-> FALSE]
    ELSE IF Exists(f, Parent(p)) \/ ~parents
    THEN [fs |-> f, err |-> TRUE]
    ELSE LET r == Mkdir(f, Parent(p), TRUE, TRUE)
         IN  IF r.err THEN r ELSE Mkdir(r.fs, p, FALSE, exist_ok)

MkCall(p, parents) == [path |-> p, parents |-> parents]

\* Faulty variant: the calls made without exist_ok=True.
RECURSIVE RunMkdirs_no_exist_ok(_, _)
RunMkdirs_no_exist_ok(f, calls) ==
    IF calls = <<>> THEN [fs |-> f, err |-> FALSE]
    ELSE LET r == Mkdir(f, Head(calls).path, Head(calls).parents, FALSE)
         IN  IF r.err THEN r ELSE RunMkdirs_no_exist_ok(r.fs, Tail(calls))

\* A sequence of mkdir(exist_ok=True) calls; the first that raises ends it.
RECURSIVE RunMkdirs(_, _)
RunMkdirs(f, calls) ==
    IF calls = <<>> THEN [fs |-> f, err |-> FALSE]
    ELSE LET r == Mkdir(f, Head(calls).path, Head(calls).parents, TRUE)
         IN  IF r.err THEN r ELSE RunMkdirs(r.fs, Tail(calls))

RECURSIVE Flatten(_)
Flatten(ss) == IF ss = <<>> THEN <<>> ELSE Head(ss) \o Flatten(Tail(ss))


---------------------------------------------------------------------------
(* Directory layout: the three "ensure" operations *)

NoOp == [name |-> "none", ok |-> FALSE, raised |-> FALSE, total |-> 0, ready |-> FALSE]
Returned(name, ok, raised) ==
    [name |-> name, ok |-> ok, raised |-> raised, total |-> 0, ready |-> FALSE]

\* MonumentDataCollector.setup_directories
collector_split_calls(split) ==
    <<MkCall(data_dir \o <<split>>, TRUE)>> \o
    [i \in 1..Len(collector_landmarks) + 1 |->
        MkCall(data_dir \o <<split, (collector_landmarks \o <<"background">>)[i]>>, FALSE)]

setup_directories(f) ==
    RunMkdirs(f, Flatten([s \in 1..Len(Splits) |-> collector_split_calls(Splits[s])]))

\* MontrealMonumentModelTrainer.__init__: the two mkdir(exist_ok=True) calls.
trainer_init(f) ==
    RunMkdirs(f, <<MkCall(data_dir, FALSE), MkCall(model_output_dir, FALSE)>>)

\* MontrealMonumentModelTrainer.setup_data_structure
trainer_split_calls(split) ==
    <<MkCall(data_dir \o <<split>>, FALSE)>> \o
    [i \in 1..Len(landmarks) |-> MkCall(data_dir \o <<split, landmarks[i]>>, FALSE)]

\* Faulty variant: the second loop, which creates the background directories, left out.
setup_data_structure_no_background(f) ==
    RunMkdirs(f, Flatten([s \in 1..Len(Splits) |-> trainer_split_calls(Splits[s])]))

setup_data_structure(f) ==
    RunMkdirs(f,
        Flatten([s \in 1..Len(Splits) |-> trainer_split_calls(Splits[s])]) \o
        [s \in 1..Len(Splits) |-> MkCall(data_dir \o <<Splits[s], "background">>, FALSE)])

\* setup.py setup_directories: the literal list of thirteen directories.
setup_py_directories ==
    <<  <<"training_data", "train", "notre_dame_basilica">>,
        <<"training_data", "train", "olympic_stadium_tower">>,
        <<"training_data", "train", "mount_royal_cross">>,
        <<"training_data", "train", "old_port_clock_tower">>,
        <<"training_data", "train", "saint_josephs_oratory">>,
        <<"training_data", "train", "background">>,
        <<"training_data", "validation", "notre_dame_basilica">>,
        <<"training_data", "validation", "olympic_stadium_tower">>,
        <<"training_data", "validation", "mount_royal_cross">>,
        <<"training_data", "validation", "old_port_clock_tower">>,
        <<"training_data", "validation", "saint_josephs_oratory">>,
        <<"training_data", "validation", "background">>,
        <<"models">> >>

setup_py_setup_directories(f) ==
    RunMkdirs(f, [i \in 1..Len(setup_py_directories) |-> MkCall(setup_py_directories[i], TRUE)])

---------------------------------------------------------------------------
(* Dataset validation *)

\* ['.jpg', '.jpeg', '.png']
image_suffixes == {<<46,106,112,103>>, <<46,106,112,101,103>>, <<46,112,110,103>>}

\* Faulty variant: the suffix compared without lower().
image_count_case_sensitive(f, dir) ==
    Cardinality({q \in Children(f, dir) : Suffix(Name(q)) \in image_suffixes})

\* len([f for f in landmark_dir.glob('*') if f.suffix.lower() in [...]])
image_count(f, dir) ==
    Cardinality({q \in Children(f, dir) : Lower(Suffix(Name(q))) \in image_suffixes})

RECURSIVE split_total(_, _, _)
split_total(f, split_dir, names) ==
    IF names = <<>> THEN 0
    ELSE (IF Exists(f, split_dir \o <<Head(names)>>)
          THEN image_count(f, split_dir \o <<Head(names)>>) ELSE 0)
         + split_total(f, split_dir, Tail(names))

RECURSIVE total_images(_, _)
total_images(f, splits) ==
    IF splits = <<>> THEN 0
    ELSE (IF ~Exists(f, data_dir \o <<Head(splits)>>) THEN 0
          ELSE split_total(f, data_dir \o <<Head(splits)>>,
                           collector_landmarks \o <<"background">>))
         + total_images(f, Tail(splits))

\* MonumentDataCollector.validate_dataset: the total it reports, and whether it
\* prints "Dataset looks good for training!".
validate_dataset(f) ==
    [name |-> "validate_dataset", ok |-> FALSE, raised |-> FALSE,
     total |-> total_images(f, Splits), ready |-> total_images(f, Splits) > 0]

---------------------------------------------------------------------------
(* External edits of the dataset directories between runs *)

EmptyFs == [p \in {} |-> Dir]
NoArg == [status |-> "", body |-> TextFile, path |-> <<>>, disk |-> ""]

ExtMkdir(P) ==
    \E p \in P :
        /\ ~Exists(fs, p)
        /\ IsDir(fs, Parent(p))
        /\ fs' = (p :> Dir) @@ fs
        /\ op' = Returned("external", FALSE, FALSE)
        /\ pre' = EmptyFs
        /\ arg' = NoArg

\* A file placed by hand: a photo under an image name, text under any other.
ExtNode(p) ==
    IF Len(p) = 4 /\ Lower(Suffix(Name(p))) \in image_suffixes
    THEN ImageFile(640, 480, "RGB", "JPEG") ELSE TextFile

ExtPutFile(P) ==
    \E p \in P :
        /\ ~Exists(fs, p)
        /\ IsDir(fs, Parent(p))
        /\ fs' = (p :> ExtNode(p)) @@ fs
        /\ op' = Returned("external", FALSE, FALSE)
        /\ pre' = EmptyFs
        /\ arg' = NoArg

ExtRemove(P) ==
    \E p \in P :
        /\ Exists(fs, p)
        /\ Children(fs, p) = {}
        /\ fs' = [q \in DOMAIN fs \ {p} |-> fs[q]]
        /\ op' = Returned("external", FALSE, FALSE)
        /\ pre' = EmptyFs
        /\ arg' = NoArg

---------------------------------------------------------------------------
(* SpecLayout: the layout and validation operations on an externally edited tree *)

\* Directories the environment creates or removes by hand.
LayoutExtDirs ==
    { <<"training_data">>, <<"training_data", "train">>,
      <<"training_data", "train", "background">>,
      <<"training_data", "train", "street_art">>,
      <<"training_data", "validation", "background">> }

\* Files the environment places by hand: images, notes, and a regular file
\* where the layout expects a directory.
LayoutExtFiles ==
    { <<"training_data", "train", "background", "a.jpg">>,
      <<"training_data", "train", "background", "B.PNG">>,
      <<"training_data", "train", "background", "notes.txt">>,
      <<"training_data", "train", "street_art", "a.jpg">>,
      <<"training_data", "validation", "background", "c.jpeg">>,
      <<"training_data", "validation", "background", ".DS_Store">>,
      <<"training_data", "validation">>,
      <<"training_data", "train", "mount_royal_cross">> }

NoNet ==
    [built |-> FALSE, variant |-> "", units |-> 0, classes |-> <<>>, trained |-> FALSE,
     input |-> [h |-> 0, w |-> 0, c |-> 0]]
\* float('nan') and np.inf among the validation losses, which are counted in
\* units of 1e-4.
NaN == -1
Inf == 1000
NoFit ==
    [running |-> FALSE, halted |-> FALSE, has_val |-> FALSE, epoch |-> 0,
     stop_training |-> FALSE,
     es |-> [wait |-> 0, best |-> Inf],
     rlr |-> [wait |-> 0, best |-> Inf, cuts |-> 0],
     ckpt |-> [best |-> Inf, saved |-> FALSE],
     low |-> Inf, stale |-> 0]
NoPx == [p |-> 0, trained |-> FALSE, exported |-> FALSE, train |-> <<0, 1>>, export |-> <<0, 1>>]
NoBatch ==
    [active |-> FALSE, landmark |-> "", n |-> 0, idx |-> 0, downloaded |-> 0,
     failed |-> FALSE, ended |-> ""]

LayoutInit ==
    /\ fs = EmptyFs
    /\ op = NoOp
    /\ pc = "Idle"
    /\ net = NoNet
    /\ batch = NoBatch
    /\ persisted = {}
    /\ pre = EmptyFs
    /\ arg = NoArg
    /\ fit = NoFit
    /\ px = NoPx

CollectorEnsure ==
    LET r == setup_directories(fs)
    IN  /\ fs' = r.fs
        /\ pre' = fs
        /\ arg' = NoArg
        /\ op' = Returned("setup_directories", FALSE, r.err)

TrainerEnsure ==
    LET i == trainer_init(fs)
        r == IF i.err THEN i ELSE setup_data_structure(i.fs)
    IN  /\ fs' = r.fs
        /\ pre' = fs
        /\ arg' = NoArg
        /\ op' = Returned(IF i.err THEN "trainer_init" ELSE "setup_data_structure", FALSE, r.err)

SetupPyEnsure ==
    LET r == setup_py_setup_directories(fs)
    IN  /\ fs' = r.fs
        /\ pre' = fs
        /\ arg' = NoArg
        /\ op' = Returned("setup_py_setup_directories", ~r.err, r.err)

ValidateDataset ==
    /\ op' = validate_dataset(fs)
    /\ fs' = fs
    /\ pre' = fs
    /\ arg' = NoArg

LayoutEdit ==
    \/ ExtMkdir(LayoutExtDirs)
    \/ ExtPutFile(LayoutExtFiles)
    \/ ExtRemove(LayoutExtDirs \cup LayoutExtFiles)

LayoutNext ==
    \/ (LayoutEdit /\ UNCHANGED <<fit, px, pc, net, batch, persisted>>)
    \/ (CollectorEnsure /\ UNCHANGED <<fit, px, pc, net, batch, persisted>>)
    \/ (TrainerEnsure /\ UNCHANGED <<fit, px, pc, net, batch, persisted>>)
    \/ (SetupPyEnsure /\ UNCHANGED <<fit, px, pc, net, batch, persisted>>)
    \/ (ValidateDataset /\ UNCHANGED <<fit, px, pc, net, batch, persisted>>)

SpecLayout == LayoutInit /\ [][LayoutNext]_vars


---------------------------------------------------------------------------
(* Image ingestion *)

\* The names collect_training_data.py binds at module level by its imports.
module_imports ==
    {"os", "sys", "json", "time", "requests", "Path", "urlparse", "Image", "hashlib"}

\* Bytes that are no image, and a file cut short by a failed write.
JunkBytes == [kind |-> "file", w |-> 0, h |-> 0, mode |-> "", fmt |-> "junk", labels |-> <<>>, meta |-> <<>>]
PartialFile == [kind |-> "file", w |-> 0, h |-> 0, mode |-> "", fmt |-> "partial", labels |-> <<>>, meta |-> <<>>]

max_size == <<800, 800>>
min_side == 224

Abs(x) == IF x < 0 THEN -x ELSE x
Max(a, b) == IF a >= b THEN a ELSE b

\* PIL Image.thumbnail's preserve_aspect_ratio: the size that fits the box and
\* keeps the aspect ratio, each rounded to the neighbour nearest in ratio.
thumbnail_size(w, h, box) ==
    IF box[1] >= w /\ box[2] >= h THEN <<w, h>>
    ELSE IF box[1] * h >= w * box[2]
    THEN LET lo == (box[2] * w) \div h
             hi == IF (box[2] * w) % h = 0 THEN lo ELSE lo + 1
             x  == IF Abs(box[2] * w - lo * h) <= Abs(box[2] * w - hi * h) THEN lo ELSE hi
         IN  <<Max(x, 1), box[2]>>
    ELSE LET lo == (box[1] * h) \div w
             hi == IF (box[1] * h) % w = 0 THEN lo ELSE lo + 1
             y  == IF lo = 0 THEN lo
                   ELSE IF Abs(w * lo - box[1] * h) * hi <= Abs(w * hi - box[1] * h) * lo
                   THEN lo ELSE hi
         IN  <<box[1], Max(y, 1)>>

\* An opened image after convert('RGB') and the conditional thumbnail().
processed(body, box) ==
    LET sz == IF body.w > box[1] \/ body.h > box[2]
              THEN thumbnail_size(body.w, body.h, box) ELSE <<body.w, body.h>>
    IN  ImageFile(sz[1], sz[2], "RGB", body.fmt)

DlResult(f, ok, raised) == [fs |-> f, ok |-> ok, raised |-> raised, wrote |-> f # f]
Wrote(f, p, node, ok) == [fs |-> (p :> node) @@ f, ok |-> ok, raised |-> FALSE, wrote |-> ok]

\* PIL Image.save(filepath, 'JPEG'): opens the file for writing, encodes; when
\* the encoder fails it removes the file if save created it.
image_save(f, filepath, img, disk) ==
    IF ~IsDir(f, Parent(filepath)) \/ disk = "open_fails" THEN DlResult(f, FALSE, FALSE)
    ELSE IF disk = "write_fails"
    THEN IF Exists(f, filepath) THEN Wrote(f, filepath, PartialFile, FALSE)
         ELSE DlResult(f, FALSE, FALSE)
    ELSE Wrote(f, filepath, ImageFile(img.w, img.h, img.mode, "JPEG"), TRUE)

\* Faulty variant: the response body is written to the destination as it arrives.
download_image_unchecked(f, resp, filepath, disk) ==
    IF resp.status # "ok" THEN DlResult(f, FALSE, FALSE)
    ELSE Wrote(f, filepath, resp.body, TRUE)

\* MonumentDataCollector.download_image.  Every exception is caught and turned
\* into False; BytesIO is looked up when line 88 runs.
download_image(f, resp, filepath, disk) ==
    IF resp.status # "ok" THEN DlResult(f, FALSE, FALSE)
    ELSE IF "BytesIO" \notin module_imports THEN DlResult(f, FALSE, FALSE)
    ELSE IF resp.body.fmt = "junk" THEN DlResult(f, FALSE, FALSE)
    ELSE LET image == processed(resp.body, max_size)
         IN  IF image.w < min_side \/ image.h < min_side THEN DlResult(f, FALSE, FALSE)
             ELSE image_save(f, filepath, image, disk)

\* Faulty variant: only the write is guarded; a failed request raises to the caller.
flickr_download_image_unguarded_get(f, resp, filepath, disk) ==
    IF resp.status # "ok" THEN DlResult(f, FALSE, TRUE)
    ELSE IF ~IsDir(f, Parent(filepath)) \/ disk = "open_fails" THEN DlResult(f, FALSE, FALSE)
    ELSE IF disk = "write_fails" THEN Wrote(f, filepath, PartialFile, FALSE)
    ELSE Wrote(f, filepath, resp.body, TRUE)

\* FlickrCollector.download_image of the generated collect_from_flickr.py:
\* the response bytes are written as they are; every exception gives False.
flickr_download_image(f, resp, filepath, disk) ==
    IF resp.status # "ok" THEN DlResult(f, FALSE, FALSE)
    ELSE IF ~IsDir(f, Parent(filepath)) \/ disk = "open_fails" THEN DlResult(f, FALSE, FALSE)
    ELSE IF disk = "write_fails" THEN Wrote(f, filepath, PartialFile, FALSE)
    ELSE Wrote(f, filepath, resp.body, TRUE)

\* f"{landmark_name}_flickr_{photo['id']}.jpg"
flickr_filename(landmark, id) ==
    CASE landmark = "notre_dame_basilica" /\ id = 1 -> "notre_dame_basilica_flickr_1.jpg"
      [] landmark = "notre_dame_basilica" /\ id = 2 -> "notre_dame_basilica_flickr_2.jpg"
      [] landmark = "mount_royal_cross" /\ id = 1 -> "mount_royal_cross_flickr_1.jpg"
      [] landmark = "mount_royal_cross" /\ id = 2 -> "mount_royal_cross_flickr_2.jpg"

---------------------------------------------------------------------------
(* SpecIngest: single fetches and the Flickr batch *)

\* What a URL may deliver.
Payloads ==
    { ImageFile(1000, 1000, "RGB", "JPEG"),
      ImageFile(100, 100, "RGBA", "PNG"),
      ImageFile(2000, 500, "RGB", "JPEG"),
      JunkBytes }
Disks == {"ok", "open_fails", "write_fails"}

\* A fetch's inputs: the request fails (timeout, non-2xx status) and there is no
\* body, or it delivers a payload and the disk takes the write or not.
Fetches ==
    [status : {"timeout", "http_error"}, body : {JunkBytes}, disk : {"ok"}] \cup
    [status : {"ok"}, body : Payloads, disk : Disks]

\* max_images of a search_and_download call, and the photo ids Flickr returns.
MaxImages == 2
PhotoIds == {1, 2}
BatchLandmarks == {"notre_dame_basilica"}

IngestDests ==
    { <<"training_data", "train", "background", "a.jpg">>,
      <<"training_data", "train", "notre_dame_basilica", "notre_dame_basilica_flickr_1.jpg">> }

DownloadImage ==
    \E resp \in Fetches, filepath \in IngestDests :
        LET disk == resp.disk
            r == download_image(fs, resp, filepath, disk)
        IN  /\ ~batch.active
            /\ fs' = r.fs
            /\ pre' = fs
            /\ arg' = [status |-> resp.status, body |-> resp.body, path |-> filepath, disk |-> disk]
            /\ op' = Returned("download_image", r.ok, r.raised)
            /\ persisted' = IF r.ok THEN persisted \cup {filepath} ELSE persisted
            /\ batch' = NoBatch
            /\ UNCHANGED <<fit, px, pc, net>>

\* search_and_download up to its loop: the search, then the download directory.
BatchStart ==
    \E landmark \in BatchLandmarks, n \in 0..MaxImages, search_ok \in BOOLEAN :
        LET d == Mkdir(fs, data_dir \o <<"train", landmark>>, TRUE, TRUE)
            started == search_ok /\ ~d.err
        IN  /\ ~batch.active
            /\ fs' = IF search_ok THEN d.fs ELSE fs
            /\ pre' = EmptyFs
            /\ arg' = NoArg
            /\ op' = Returned("search_and_download", FALSE, FALSE)
            /\ batch' = [active |-> started, landmark |-> landmark,
                         n |-> IF started THEN n ELSE 0, idx |-> 0, downloaded |-> 0,
                         failed |-> FALSE,
                         ended |-> IF started THEN "" ELSE "search_error"]
            /\ UNCHANGED <<fit, px, pc, net, persisted>>

\* One iteration of the loop over photos['photos']['photo'].
BatchStep ==
    \E has_url \in BOOLEAN, id \in PhotoIds, resp \in Fetches :
        LET disk == resp.disk
            filepath == data_dir \o <<"train", batch.landmark, flickr_filename(batch.landmark, id)>>
            r == IF has_url THEN flickr_download_image(fs, resp, filepath, disk)
                 ELSE DlResult(fs, FALSE, FALSE)
        IN  /\ batch.active
            /\ batch.idx < batch.n
            /\ batch.downloaded < MaxImages
            /\ fs' = r.fs
            /\ pre' = EmptyFs
            /\ arg' = IF has_url
                      THEN [status |-> resp.status, body |-> resp.body, path |-> filepath, disk |-> disk]
                      ELSE NoArg
            /\ op' = IF has_url THEN Returned("flickr_download_image", r.ok, r.raised)
                     ELSE Returned("skip_photo", FALSE, FALSE)
            /\ persisted' = IF r.ok THEN persisted \cup {filepath} ELSE persisted
            /\ batch' = IF r.raised
                        THEN [batch EXCEPT !.active = FALSE, !.ended = "fetch_error"]
                        ELSE [batch EXCEPT !.idx = @ + 1,
                                           !.downloaded = IF r.ok THEN @ + 1 ELSE @,
                                           !.failed = @ \/ (has_url /\ ~r.ok)]
            /\ UNCHANGED <<fit, px, pc, net>>

\* The loop ends: the photos are exhausted, or max_images were downloaded.
BatchEnd ==
    /\ batch.active
    /\ (batch.idx = batch.n \/ batch.downloaded >= MaxImages)
    /\ batch' = [batch EXCEPT !.active = FALSE, !.ended = "finished"]
    /\ op' = Returned("search_and_download", FALSE, FALSE)
    /\ pre' = EmptyFs
    /\ arg' = NoArg
    /\ UNCHANGED <<fit, px, fs, pc, net, persisted>>

IngestNext ==
    \/ (CollectorEnsure /\ ~batch.active /\ UNCHANGED <<fit, px, pc, net, batch, persisted>>)
    \/ DownloadImage
    \/ BatchStart
    \/ BatchStep
    \/ BatchEnd

SpecIngest == LayoutInit /\ [][IngestNext]_vars

---------------------------------------------------------------------------
(* The trainer: data check, model construction, training, export *)

img_size == <<224, 224>>

\* Keras flow_from_directory counts the files whose lower-cased name ends in
\* one of these: .png .jpg .jpeg .bmp .ppm .tif .tiff
keras_formats ==
    { <<46,112,110,103>>, <<46,106,112,103>>, <<46,106,112,101,103>>, <<46,98,109,112>>,
      <<46,112,112,109>>, <<46,116,105,102>>, <<46,116,105,102,102>> }

EndsWith(s, t) == Len(s) >= Len(t) /\ SubSeq(s, Len(s) - Len(t) + 1, Len(s)) = t

SubDirs(f, dir) == {q \in Children(f, dir) : f[q].kind = "dir"}

\* flow_from_directory(directory) without classes=: one class per
\* subdirectory, indexed in sorted order, and the images found under them.
flow_from_directory(f, dir) ==
    [classes |-> SortedSeq({Name(q) : q \in SubDirs(f, dir)}),
     samples |-> Cardinality({q \in DOMAIN f :
                    /\ Len(q) = Len(dir) + 2
                    /\ Parent(q) \in SubDirs(f, dir)
                    /\ f[q].kind = "file"
                    /\ \E x \in keras_formats : EndsWith(Lower(Chars[Name(q)]), x)})]

\* main's check: any(len(list(d.glob('*'))) > 0 for d in train_dirs if d.is_dir())
has_data(f) ==
    \E d \in Children(f, data_dir \o <<"train">>) :
        f[d].kind = "dir" /\ Children(f, d) # {}

\* create_model / create_demo_model: the input shape and the units of the last layer.
\* input_shape=(*self.img_size, 3); Dense(len(self.landmarks) + 1).
create_model ==
    [built |-> TRUE, variant |-> "transfer", units |-> Len(landmarks) + 1,
     classes |-> <<>>, trained |-> FALSE,
     input |-> [h |-> img_size[1], w |-> img_size[2], c |-> 3]]
demo_model ==
    [built |-> TRUE, variant |-> "minimal", units |-> Len(landmarks) + 1,
     classes |-> <<>>, trained |-> FALSE,
     input |-> [h |-> img_size[1], w |-> img_size[2], c |-> 3]]

\* Faulty variant: the list in alphabetical order, 'background' first.
simple_landmarks_sorted == SortedSeq(Labels)

\* create_simple_model.py: its own label list, with 'background' in it.
simple_landmarks ==
    <<"notre_dame_basilica", "olympic_stadium_tower", "mount_royal_cross",
      "old_port_clock_tower", "saint_josephs_oratory", "background">>

\* datatypes.Array(3, 224, 224): channels, height, width.
simple_input == <<3, 224, 224>>

\* Faulty variant: one output per landmark, none for 'background'.
create_simple_classifier_no_background_unit ==
    [built |-> TRUE, variant |-> "simple", units |-> Len(landmarks),
     classes |-> <<>>, trained |-> FALSE,
     input |-> [h |-> simple_input[2], w |-> simple_input[3], c |-> simple_input[1]]]

\* create_simple_classifier: the inner product layer has len(landmarks) outputs.
create_simple_classifier ==
    [built |-> TRUE, variant |-> "simple", units |-> Len(simple_landmarks),
     classes |-> <<>>, trained |-> FALSE,
     input |-> [h |-> simple_input[2], w |-> simple_input[3], c |-> simple_input[1]]]

\* Faulty variant: the label list taken from the sorted class directories.
class_labels_sorted == SortedSeq(Labels)

\* convert_to_coreml: class_labels = self.landmarks + ['background']
class_labels == landmarks \o <<"background">>

artifact_path == model_output_dir \o <<"MontrealMonuments.mlmodel">>
checkpoint_path == model_output_dir \o <<"best_model.h5">>
readme_path == data_dir \o <<"README_DATA_COLLECTION.md">>
guide_path == model_output_dir \o <<"INTEGRATION_GUIDE.md">>

\* The saved .mlmodel: the image input of the network it was made from, the
\* embedded labels, and the network and version it carries.
Artifact(labels, n, version) ==
    [kind |-> "file", w |-> n.input.w, h |-> n.input.h, mode |-> "RGB",
     fmt |-> "mlmodel", labels |-> labels, meta |-> <<n.variant, version>>]
Checkpoint == [kind |-> "file", w |-> 0, h |-> 0, mode |-> "", fmt |-> "h5", labels |-> <<>>, meta |-> <<>>]

\* What an export can meet: the conversion raises, or the write of the file does.
ConvertOutcomes == {"ok", "convert_raises", "save_raises"}

\* MLModel.save(path): opens the file for writing and writes the serialized model.
mlmodel_save(f, path, node, outcome) ==
    IF outcome = "save_raises"
    THEN [fs |-> (path :> PartialFile) @@ f, ok |-> FALSE, raised |-> TRUE]
    ELSE [fs |-> (path :> node) @@ f, ok |-> TRUE, raised |-> FALSE]

\* Faulty variant: the file is opened for writing before the conversion runs.
convert_to_coreml_open_first(f, n, outcome) ==
    IF outcome = "convert_raises"
    THEN [fs |-> (artifact_path :> PartialFile) @@ f, ok |-> FALSE, raised |-> TRUE]
    ELSE mlmodel_save(f, artifact_path, Artifact(class_labels, n, "1.0"), outcome)

\* convert_to_coreml(model): ct.convert, the metadata, then the save.  Nothing
\* is caught: an exception goes to the caller.
convert_to_coreml(f, n, outcome) ==
    IF outcome = "convert_raises" THEN [fs |-> f, ok |-> FALSE, raised |-> TRUE]
    ELSE mlmodel_save(f, artifact_path, Artifact(class_labels, n, "1.0"), outcome)

\* create_simple_model.main: builds the classifier, makes models/, saves.  Every
\* exception is caught and main returns False.
create_simple_model_main(f, outcome) ==
    IF outcome = "convert_raises" THEN [fs |-> f, ok |-> FALSE, raised |-> FALSE]
    ELSE LET d == Mkdir(f, model_output_dir, FALSE, TRUE)
         IN  IF d.err THEN [fs |-> d.fs, ok |-> FALSE, raised |-> FALSE]
             ELSE LET r == mlmodel_save(d.fs, artifact_path,
                               Artifact(simple_landmarks, create_simple_classifier, "1.0-demo"),
                               outcome)
                  IN  [fs |-> r.fs, ok |-> r.ok, raised |-> FALSE]

\* Faulty variant: the early return taken when train/ holds no image.
no_training_images(f) == flow_from_directory(f, data_dir \o <<"train">>).samples = 0

\* train_model's early return: if not any(train_dir.iterdir())
no_training_data(f) == Children(f, data_dir \o <<"train">>) = {}

\* fit() cannot run: no training image, or the generators' class count is not
\* the model's output width.
fit_must_raise(n, train_gen, val_gen) ==
    \/ train_gen.samples = 0
    \/ Len(train_gen.classes) # n.units
    \/ (val_gen.samples > 0 /\ Len(val_gen.classes) # n.units)

---------------------------------------------------------------------------
(* SpecFit: the epoch loop of model.fit with the three callbacks of train_model *)

epochs == 50
early_stopping_patience == 10
reduce_lr_patience == 5
\* ReduceLROnPlateau's default min_delta=1e-4, in the unit of the losses.
reduce_lr_min_delta == 1

\* The validation losses an epoch may report.
MaxLoss == 3
ValLosses == 0..MaxLoss \cup {NaN}

\* np.less: false when either side is nan.
Less(a, b) == a # NaN /\ b # NaN /\ a < b

\* Faulty variant: the wait counter is not reset by an improvement.
early_stopping_no_reset(cb, current) ==
    LET better == Less(current, cb.best)
        wait == cb.wait + 1
    IN  [cb |-> [wait |-> wait, best |-> IF better THEN current ELSE cb.best],
         stop |-> wait >= early_stopping_patience]

\* EarlyStopping(patience=10).on_epoch_end: monitors val_loss, min_delta=0.
early_stopping(cb, current) ==
    LET better == Less(current, cb.best)
        wait == IF better THEN 0 ELSE cb.wait + 1
    IN  [cb |-> [wait |-> wait, best |-> IF better THEN current ELSE cb.best],
         stop |-> wait >= early_stopping_patience]

\* ReduceLROnPlateau(factor=0.2, patience=5).on_epoch_end: cooldown=0,
\* min_lr=0; cuts counts the times the learning rate was multiplied by 0.2.
reduce_lr_on_plateau(cb, current) ==
    IF Less(current, cb.best - reduce_lr_min_delta)
    THEN [cb EXCEPT !.best = current, !.wait = 0]
    ELSE IF cb.wait + 1 >= reduce_lr_patience
    THEN [cb EXCEPT !.wait = 0, !.cuts = @ + 1]
    ELSE [cb EXCEPT !.wait = @ + 1]

\* ModelCheckpoint(save_best_only=True).on_epoch_end.
model_checkpoint(cb, current) ==
    IF Less(current, cb.best) THEN [best |-> current, saved |-> TRUE]
    ELSE [cb EXCEPT !.saved = FALSE]

\* model.fit(train_gen, epochs=self.epochs, validation_data=val_gen, callbacks=...)
\* begins; has_val: the validation generator yields batches, so the logs
\* carry val_loss.
FitStart ==
    \E has_val \in BOOLEAN :
        /\ ~fit.running
        /\ fit' = [NoFit EXCEPT !.running = TRUE, !.has_val = has_val]
        /\ UNCHANGED <<fs, op, pc, net, batch, persisted, pre, arg, px>>

\* One epoch and the callbacks' on_epoch_end, in the order of the list.  low
\* and stale are history: the lowest validation loss of the earlier epochs and
\* the number of epochs in a row that did not go below it.
FitEpoch ==
    \E current \in ValLosses :
        LET es == early_stopping(fit.es, current)
        IN  /\ fit.running /\ ~fit.stop_training /\ fit.epoch < epochs
            /\ fit' = IF fit.has_val
                      THEN [fit EXCEPT
                              !.epoch = @ + 1,
                              !.es = es.cb,
                              !.stop_training = es.stop,
                              !.rlr = reduce_lr_on_plateau(@, current),
                              !.ckpt = model_checkpoint(@, current),
                              !.low = IF Less(current, @) THEN current ELSE @,
                              !.stale = IF Less(current, fit.low) THEN 0 ELSE @ + 1]
                      ELSE [fit EXCEPT !.epoch = @ + 1]
            /\ UNCHANGED <<fs, op, pc, net, batch, persisted, pre, arg, px>>

\* The loop ends: the epochs are used up, or a callback set stop_training.
FitEnd ==
    /\ fit.running
    /\ (fit.epoch >= epochs \/ fit.stop_training)
    /\ fit' = [fit EXCEPT !.running = FALSE, !.halted = TRUE]
    /\ UNCHANGED <<fs, op, pc, net, batch, persisted, pre, arg, px>>

FitNext ==
    \/ FitStart
    \/ FitEpoch
    \/ FitEnd

SpecFit == LayoutInit /\ [][FitNext]_vars /\ WF_vars(FitEpoch) /\ WF_vars(FitEnd)

---------------------------------------------------------------------------
(* SpecPreprocess: what a pixel value becomes in training and in the artifact.
   Values are exact fractions <<numerator, denominator>>. *)

pixel_max == 255

\* ImageDataGenerator(rescale=1./255)
rescale == <<1, 255>>
\* ct.ImageType(bias=[-1, -1, -1], scale=1/127.5); 1/127.5 = 10/1275
coreml_scale == <<10, 1275>>
coreml_bias == <<-1, 1>>

RatMul(a, b) == <<a[1] * b[1], a[2] * b[2]>>
RatAdd(a, b) == <<a[1] * b[2] + b[1] * a[2], a[2] * b[2]>>
RatEq(a, b) == a[1] * b[2] = b[1] * a[2]

\* The generators multiply each pixel by rescale.
training_input(p) == RatMul(<<p, 1>>, rescale)
\* Core ML feeds the network scale * pixel + bias.
coreml_input(p) == RatAdd(RatMul(coreml_scale, <<p, 1>>), coreml_bias)

PreprocessInit ==
    /\ fs = EmptyFs /\ op = NoOp /\ pc = "Idle" /\ net = NoNet /\ batch = NoBatch
    /\ persisted = {} /\ pre = EmptyFs /\ arg = NoArg /\ fit = NoFit
    /\ px \in {[NoPx EXCEPT !.p = p] : p \in 0..pixel_max}

TrainingRescale ==
    /\ ~px.trained
    /\ px' = [px EXCEPT !.trained = TRUE, !.train = training_input(px.p)]
    /\ UNCHANGED <<fs, op, pc, net, batch, persisted, pre, arg, fit>>

CoreMLPreprocess ==
    /\ ~px.exported
    /\ px' = [px EXCEPT !.exported = TRUE, !.export = coreml_input(px.p)]
    /\ UNCHANGED <<fs, op, pc, net, batch, persisted, pre, arg, fit>>

PreprocessNext ==
    \/ TrainingRescale
    \/ CoreMLPreprocess

SpecPreprocess == PreprocessInit /\ [][PreprocessNext]_vars

---------------------------------------------------------------------------
(* Spec: runs of the trainer's main() with edits of the dataset between runs *)

PipeExtDirs == { <<"training_data", "train", "street_art">> }
PipeExtFiles ==
    { <<"training_data", "train", "background", "a.jpg">>,
      <<"training_data", "train", "background", "notes.txt">>,
      <<"training_data", "train", "mount_royal_cross", "B.PNG">>,
      <<"training_data", "validation", "background", "c.jpeg">> }

PipeEdit ==
    /\ pc = "Idle"
    /\ \/ ExtMkdir(PipeExtDirs)
       \/ ExtPutFile(PipeExtFiles)
       \/ ExtRemove(PipeExtDirs \cup PipeExtFiles)
    /\ UNCHANGED <<fit, px, pc, net, batch, persisted>>

\* main up to the data check: the constructor, setup_data_structure and
\* download_sample_images, which writes the data collection guide.
MainSetup ==
    LET i == trainer_init(fs)
        r == IF i.err THEN i ELSE setup_data_structure(i.fs)
    IN  /\ pc = "Idle"
        /\ fs' = IF r.err THEN r.fs ELSE (readme_path :> TextFile) @@ r.fs
        /\ pc' = IF r.err THEN "Failed" ELSE "DataCheck"
        /\ op' = Returned(IF i.err THEN "trainer_init" ELSE "setup_data_structure", FALSE, r.err)
        /\ pre' = fs
        /\ arg' = NoArg
        /\ net' = NoNet
        /\ UNCHANGED <<fit, px, batch, persisted>>

DataCheck ==
    /\ pc = "DataCheck"
    /\ pc' = IF has_data(fs) THEN "Training" ELSE "DemoFallback"
    /\ op' = Returned("has_data", has_data(fs), FALSE)
    /\ pre' = fs
    /\ UNCHANGED <<fit, px, fs, net, batch, persisted, arg>>

\* train_model, called by main as "model, history = trainer.train_model()".
TrainModelStep(fit_raises) ==
        LET train_gen == flow_from_directory(fs, data_dir \o <<"train">>)
            val_gen == flow_from_directory(fs, data_dir \o <<"validation">>)
            none == no_training_data(fs)
            raises == none \/ fit_raises \/ fit_must_raise(create_model, train_gen, val_gen)
        IN  /\ pc = "Training"
            /\ pc' = IF raises THEN "Failed" ELSE "Converged"
            /\ net' = IF none THEN NoNet
                      ELSE [create_model EXCEPT !.classes = train_gen.classes,
                                                !.trained = ~raises]
            /\ fs' = IF ~raises /\ val_gen.samples > 0
                     THEN (checkpoint_path :> Checkpoint) @@ fs ELSE fs
            /\ op' = Returned("train_model", ~raises, raises)
            /\ pre' = fs
            /\ UNCHANGED <<fit, px, batch, persisted, arg>>

TrainModel == \E fit_raises \in BOOLEAN : TrainModelStep(fit_raises)

\* create_demo_model up to its convert_to_coreml call.
DemoModel ==
    /\ pc = "DemoFallback"
    /\ pc' = "Converged"
    /\ net' = demo_model
    /\ op' = Returned("create_demo_model", TRUE, FALSE)
    /\ pre' = fs
    /\ UNCHANGED <<fit, px, fs, batch, persisted, arg>>

\* convert_to_coreml(model), and for the demo model the integration guide that
\* create_demo_model writes after it.  ct.convert may raise.
ConvertStep(outcome) ==
        LET r == convert_to_coreml(fs, net, outcome)
        IN  /\ pc = "Converged"
            /\ pc' = IF r.ok THEN "Exported" ELSE "Failed"
            /\ fs' = IF r.ok /\ net.variant = "minimal"
                     THEN (guide_path :> TextFile) @@ r.fs ELSE r.fs
            /\ op' = Returned("convert_to_coreml", r.ok, r.raised)
            /\ pre' = fs
            /\ arg' = [NoArg EXCEPT !.status = outcome]
            /\ UNCHANGED <<fit, px, net, batch, persisted>>

ConvertToCoreML == \E outcome \in ConvertOutcomes : ConvertStep(outcome)

\* A run of create_simple_model.py, between runs of the trainer.
SimpleModelMain ==
    \E outcome \in ConvertOutcomes :
        LET r == create_simple_model_main(fs, outcome)
        IN  /\ pc = "Idle"
            /\ fs' = r.fs
            /\ net' = IF outcome = "convert_raises" THEN NoNet ELSE create_simple_classifier
            /\ op' = Returned("create_simple_model", r.ok, r.raised)
            /\ pre' = fs
            /\ arg' = [NoArg EXCEPT !.status = outcome]
            /\ UNCHANGED <<fit, px, pc, batch, persisted>>

\* The process ends; a later run starts from Idle.
Exit ==
    /\ pc \in {"Exported", "Failed"}
    /\ pc' = "Idle"
    /\ net' = NoNet
    /\ op' = NoOp
    /\ pre' = EmptyFs
    /\ UNCHANGED <<fit, px, fs, batch, persisted, arg>>

Init == LayoutInit

Next ==
    \/ PipeEdit
    \/ MainSetup
    \/ DataCheck
    \/ TrainModel
    \/ DemoModel
    \/ ConvertToCoreML
    \/ SimpleModelMain
    \/ Exit

Spec == Init /\ [][Next]_vars

\* The same runs when no library call fails for a reason outside the program
\* (fit raises only where it must, the conversion and the save succeed), and a
\* started run is carried on to its end.
TrainModelNoFault == TrainModelStep(FALSE)
ConvertNoFault == ConvertStep("ok")

NextNoFault ==
    \/ PipeEdit
    \/ MainSetup
    \/ DataCheck
    \/ TrainModelNoFault
    \/ DemoModel
    \/ ConvertNoFault
    \/ Exit

SpecNoFault ==
    /\ Init /\ [][NextNoFault]_vars
    /\ WF_vars(DataCheck) /\ WF_vars(TrainModelNoFault)
    /\ WF_vars(DemoModel) /\ WF_vars(ConvertNoFault)

---------------------------------------------------------------------------
(* Claims about the layout and the validator *)

EnsureNames == {"setup_directories", "setup_data_structure", "setup_py_setup_directories"}

TreeDirs == {data_dir \o <<s, l>> : s \in Range(Splits), l \in Labels}
TreePaths == {data_dir, model_output_dir} \cup {data_dir \o <<s>> : s \in Range(Splits)} \cup TreeDirs

\* A regular file sits where the layout has a directory.
Blocked(f) == \E p \in TreePaths : Exists(f, p) /\ f[p].kind # "dir"

AllTreeDirsExist(f) == \A d \in TreeDirs : Exists(f, d) /\ f[d].kind = "dir"
FreshDirsEmpty == \A d \in TreeDirs : ~Exists(pre, d) /\ Exists(fs, d) => image_count(fs, d) = 0

\* C8 as stated: after ensure on any starting filesystem state, every
\* split x label directory exists, and the directories it created hold no image.
C8_EnsureOnAnyState ==
    op.name \in EnsureNames => AllTreeDirsExist(fs) /\ FreshDirsEmpty

\* C8 amended: ensure returns without raising on every starting state in which
\* no path of the tree is occupied by a regular file; whenever it returns
\* without raising every split x label directory exists; the directories it
\* created hold no image.
C8_EnsureCreatesTree ==
    op.name \in EnsureNames =>
        /\ ~Blocked(pre) => ~op.raised
        /\ ~op.raised => AllTreeDirsExist(fs)
        /\ FreshDirsEmpty

\* An ensure created part of the tree beside directories and files that were there.
C8_Witness ==
    /\ op.name \in EnsureNames
    /\ ~op.raised
    /\ AllTreeDirsExist(fs)
    /\ \E d \in TreeDirs : ~Exists(pre, d)
    /\ \E p \in DOMAIN pre : Len(p) = 4

Again(name, f) ==
    CASE name = "setup_directories" -> setup_directories(f)
      [] name = "setup_data_structure" ->
            LET i == trainer_init(f) IN IF i.err THEN i ELSE setup_data_structure(i.fs)
      [] name = "setup_py_setup_directories" -> setup_py_setup_directories(f)

\* C9: ensure is idempotent and non-destructive: every path that existed before
\* the call exists after it with the same node; a second call leaves the tree as
\* the first call left it, and succeeds when the first did; on a tree of
\* directories and files in their places the call succeeds.
C9_EnsureIdempotent ==
    op.name \in EnsureNames =>
        /\ \A p \in DOMAIN pre : Exists(fs, p) /\ fs[p] = pre[p]
        /\ Again(op.name, fs).fs = fs
        /\ ~op.raised => ~Again(op.name, fs).err
        /\ ~Blocked(pre) => ~op.raised

\* A second call: the ensure started from a complete tree that holds image files.
C9_Witness ==
    /\ op.name \in EnsureNames
    /\ ~op.raised
    /\ AllTreeDirsExist(pre)
    /\ pre = fs
    /\ \E p \in DOMAIN pre : Len(p) = 4 /\ pre[p].fmt = "JPEG"

\* The names the claim counts as images, and those it does not.
C10_ImageNames == {"a.jpg", "B.PNG", "c.jpeg"}

C10_Expected(f) ==
    Cardinality({p \in DOMAIN f :
        /\ Len(p) = 4
        /\ SubSeq(p, 1, 1) = data_dir
        /\ p[2] \in Range(Splits)
        /\ p[3] \in Labels
        /\ p[4] \in C10_ImageNames})

\* C10: the total validate_dataset reports is the number of files with a
\* .jpg, .jpeg or .png extension (in any letter case) in the split/label
\* directories of the registered labels; other files and missing directories
\* add nothing, and it raises nothing.
C10_TotalIsSumOfCounts ==
    op.name = "validate_dataset" => op.total = C10_Expected(fs) /\ ~op.raised

\* A validation of a tree with an upper-case image name, a non-image file in a
\* registered directory, an image in an unregistered directory and a missing
\* split directory.
C10_Witness ==
    /\ op.name = "validate_dataset"
    /\ op.total = 2
    /\ Exists(fs, <<"training_data", "train", "background", "B.PNG">>)
    /\ Exists(fs, <<"training_data", "train", "background", "notes.txt">>)
    /\ Exists(fs, <<"training_data", "train", "street_art", "a.jpg">>)
    /\ ~Exists(fs, <<"training_data", "validation">>)


---------------------------------------------------------------------------
(* Claims about ingestion *)

FetchNames == {"download_image", "flickr_download_image"}

\* C4: every image file an ingestion operation has persisted is RGB, at least
\* 224 on both axes and at most 800 on its longer one.
C4_PersistedImagesNormalized ==
    \A p \in persisted :
        Exists(fs, p) =>
            /\ fs[p].mode = "RGB"
            /\ fs[p].w >= 224 /\ fs[p].h >= 224
            /\ Max(fs[p].w, fs[p].h) <= 800

\* The fetch was given a retrievable, decodable image larger than the 800x800
\* bound whose downscaled size keeps both sides at 224 or more, and a disk that
\* takes the write.
C5_Case ==
    /\ op.name = "download_image"
    /\ arg.status = "ok" /\ arg.disk = "ok"
    /\ arg.body.fmt \in {"JPEG", "PNG"}
    /\ (arg.body.w > 800 \/ arg.body.h > 800)
    /\ processed(arg.body, max_size).w >= 224
    /\ processed(arg.body, max_size).h >= 224
    /\ IsDir(pre, Parent(arg.path))

\* C5: such a fetch succeeds: download_image returns True and the destination
\* holds an RGB JPEG whose longer side is at most 800.
C5_OversizedImageIngested ==
    C5_Case =>
        /\ op.ok
        /\ Exists(fs, arg.path)
        /\ fs[arg.path].fmt = "JPEG" /\ fs[arg.path].mode = "RGB"
        /\ Max(fs[arg.path].w, fs[arg.path].h) <= 800

\* The fetch was given a decodable image one of whose sides, after the RGB
\* conversion and the downscale, is below 224.
C6_Case ==
    /\ op.name = "download_image"
    /\ arg.status = "ok"
    /\ arg.body.fmt \in {"JPEG", "PNG"}
    /\ (processed(arg.body, max_size).w < 224 \/ processed(arg.body, max_size).h < 224)

C7_Failure ==
    \/ arg.status # "ok"
    \/ arg.disk # "ok"
    \/ (op.name = "download_image" /\ arg.body.fmt = "junk")

\* C7: a network, decode or write failure inside one fetch never propagates:
\* the fetch raises nothing and returns False, and a batch whose fetches failed
\* is not cut short by them: when it ends every photo has been handled.
C7_FailuresIsolated ==
    /\ op.name \in FetchNames => ~op.raised /\ (C7_Failure => ~op.ok)
    /\ batch.ended # "fetch_error"
    /\ batch.ended = "finished" => batch.idx = batch.n

\* A batch in which a fetch failed has gone on to download a later photo.
C7_Witness ==
    /\ batch.active
    /\ batch.failed
    /\ op.name = "flickr_download_image" /\ op.ok
    /\ batch.idx = 2


---------------------------------------------------------------------------
(* Claims about class order and the pipeline *)

\* C1: for every output index of a trained model that was exported, the class
\* the training generator gave that index is the label the artifact holds at
\* that position.
C1_ClassOrderTrainingEqualsExport ==
    (pc = "Exported" /\ net.trained) =>
        /\ Len(net.classes) = Len(fs[artifact_path].labels)
        /\ \A i \in 1..Len(net.classes) : net.classes[i] = fs[artifact_path].labels[i]

\* C2: whenever an export has just written the artifact, from the trained model
\* or from the demo model, its label list is the five landmarks in their
\* declared order followed by 'background'.
C2_ExportedLabelsInRegistryOrder ==
    pc = "Exported" =>
        /\ Exists(fs, artifact_path)
        /\ fs[artifact_path].labels =
              <<"notre_dame_basilica", "olympic_stadium_tower", "mount_royal_cross",
                "old_port_clock_tower", "saint_josephs_oratory", "background">>

\* An export of a trained transfer model.
C2_Witness ==
    /\ pc = "Exported"
    /\ net.trained /\ net.variant = "transfer"
    /\ Exists(fs, artifact_path)

\* No .jpg, .jpeg or .png file in any train class directory.
ZeroTrainImages ==
    \A l \in Labels : image_count(fs, data_dir \o <<"train", l>>) = 0

\* C3: with zero images in every train class a run never enters Training: it
\* goes from the data check to DemoFallback, and fails nowhere but in the
\* conversion itself.
C3_ZeroImagesDemoFallback ==
    ZeroTrainImages =>
        /\ pc # "Training"
        /\ (pc = "Failed" => op.name \in {"convert_to_coreml", "trainer_init", "setup_data_structure"})

---------------------------------------------------------------------------
(* Claims about the networks and the exported artifact *)

ExportNames == {"convert_to_coreml", "create_simple_model"}
Exported == op.name \in ExportNames /\ op.ok

C12_ExportKeepsEarlierArtifacts ==
    Exported =>
        /\ ~Exists(pre, artifact_path)
        /\ \A p \in DOMAIN pre :
              pre[p].fmt = "mlmodel" => Exists(fs, p) /\ fs[p] = pre[p]

\* C13: when the conversion step of an export fails, the export does not
\* succeed, the trainer's convert_to_coreml raises to its caller and
\* create_simple_model's main returns False, and the filesystem is what it was
\* before the export: no file was created or changed, so the artifact path
\* holds nothing, or what it held.
C13_ConversionFailureLeavesNoFile ==
    (op.name \in ExportNames /\ arg.status = "convert_raises") =>
        /\ ~op.ok
        /\ (op.name = "convert_to_coreml" => op.raised)
        /\ fs = pre

\* A conversion failed in the trainer while an earlier artifact was on disk.
C13_Witness ==
    /\ op.name = "convert_to_coreml" /\ arg.status = "convert_raises"
    /\ op.raised
    /\ Exists(fs, artifact_path) /\ fs[artifact_path].fmt = "mlmodel"

---------------------------------------------------------------------------
(* Claims about the run of the pipeline *)

\* C14: the classes the training step takes from the train directory are the
\* registered labels and no other, whatever subdirectories train/ holds.
C14_LabelSetClosed ==
    (op.name = "train_model" /\ net.built) => Range(net.classes) = Labels

PhaseOrder ==
    { <<"Idle", "DataCheck">>, <<"DataCheck", "Training">>, <<"DataCheck", "DemoFallback">>,
      <<"Training", "Converged">>, <<"DemoFallback", "Converged">>,
      <<"Converged", "Exported">>, <<"Exported", "Idle">> }

\* C15: a run moves Idle -> DataCheck -> Training or DemoFallback -> Converged
\* -> Exported and by no other step; the data check is entered from a
\* completed directory setup; the export starts from Converged only; and a run
\* that has passed the data check reaches Exported.
C15_RunOrderAndCompletion ==
    /\ [][ /\ pc' # pc => <<pc, pc'>> \in PhaseOrder
           /\ (pc' = "DataCheck" /\ pc # "DataCheck") =>
                 op'.name = "setup_data_structure" /\ ~op'.raised ]_vars
    /\ (pc \in {"Training", "DemoFallback"}) ~> (pc = "Exported")

\* C16: the validator reports the dataset ready exactly when every registered
\* class has at least one image in the train split.
C16_ReadyIffEveryTrainClassHasSample ==
    op.name = "validate_dataset" =>
        (op.ready <=> \A l \in Labels : image_count(fs, data_dir \o <<"train", l>>) >= 1)

---------------------------------------------------------------------------
(* Claims about failed fetches, training and preprocessing *)

\* C17: after a fetch that returned failure the destination is absent or holds
\* what it held before the call; in particular a fetch whose write failed has
\* left no cut-short file there.
C17_FailedFetchLeavesDestination ==
    (op.name \in FetchNames /\ ~op.ok) =>
        /\ op.name = "download_image" =>
              \/ ~Exists(fs, arg.path)
              \/ (Exists(pre, arg.path) /\ fs[arg.path] = pre[arg.path])
        /\ op.name = "flickr_download_image" =>
              ~(/\ arg.disk = "write_fails"
                /\ Exists(fs, arg.path)
                /\ fs[arg.path].fmt = "partial")

\* C18: training runs at most 50 epochs and then halts; it halts before the
\* 50th exactly when the validation loss has not gone below its earlier
\* minimum for 10 epochs in a row; by then the learning rate has been reduced
\* at least once; and the stopping decision is the same whether or not the
\* epoch wrote a checkpoint.
C18_Safe ==
    /\ fit.epoch <= epochs
    /\ (fit.running \/ fit.halted) =>
          (fit.stop_training <=> fit.stale >= 10)
    /\ (fit.halted /\ fit.epoch < epochs) => fit.stale >= 10
    /\ (fit.halted /\ fit.stale >= 10) => fit.stop_training
    /\ fit.stop_training => fit.rlr.cuts >= 1
    /\ (fit.ckpt.saved => fit.stale = 0)

C18_TrainingHalts ==
    /\ []C18_Safe
    /\ fit.running ~> fit.halted

\* An early stop: training halted before the 50th epoch after a checkpoint
\* had been written and the learning rate reduced.
C18_Witness ==
    /\ fit.halted /\ fit.stop_training
    /\ fit.epoch < epochs /\ fit.epoch > 10
    /\ fit.ckpt.best < Inf
    /\ fit.rlr.cuts >= 2

\* C19: for every pixel value p in 0..255 the value the artifact's
\* preprocessing feeds the network, scale * p + bias, is the value the
\* training generators fed it, rescale * p.
C19_ExportPreprocessingEqualsTraining ==
    (px.trained /\ px.exported) => RatEq(px.export, px.train)

\* C20: in main, train_model is entered with entries in the train directory,
\* so it never takes its early return: whenever it has been called it went on
\* to build the network, and it returned the pair or raised.
C20_TrainModelNeverReturnsNone ==
    /\ pc = "Training" => ~no_training_data(fs)
    /\ op.name = "train_model" => net.built /\ net.variant = "transfer"

\* main called train_model on a train directory whose only entries besides
\* the class directories are files fit cannot use.
C20_Witness ==
    /\ op.name = "train_model"
    /\ net.built
    /\ flow_from_directory(fs, data_dir \o <<"train">>).samples = 0

---------------------------------------------------------------------------
(* Claims about the label lists of the four scripts *)

IndexOf(list, l) == CHOOSE i \in 1..Len(list) : list[i] = l

\* The class names setup.py's directory list holds for a split.
SetupPyLabels(split) ==
    {Name(d) : d \in {x \in Range(setup_py_directories) :
                        Len(x) = 3 /\ x[1] = "training_data" /\ x[2] = split}}

\* C21: the collector's landmarks + 'background', the trainer's landmarks +
\* 'background' and the simple classifier's list are one six-name list in one
\* order with 'background' last, so a label has the same index in each; the
\* class directories setup.py lists for train and for validation are those six
\* names; and what each script's directory setup creates bears them out: after
\* it returned, every label of the simple classifier's list has its directory
\* in both splits, and no class directory it created has another name.
C21_LabelListsAgree ==
    LET c == collector_landmarks \o <<"background">>
        t == landmarks \o <<"background">>
        s == simple_landmarks
    IN  /\ Len(c) = 6 /\ Len(t) = 6 /\ Len(s) = 6
        /\ Cardinality(Range(t)) = 6
        /\ Range(c) = Range(t) /\ Range(s) = Range(t)
        /\ \A split \in Range(Splits) : SetupPyLabels(split) = Range(t)
        /\ \A l \in Range(t) : IndexOf(c, l) = IndexOf(t, l) /\ IndexOf(s, l) = IndexOf(t, l)
        /\ c[6] = "background" /\ t[6] = "background" /\ s[6] = "background"
        /\ (op.name \in EnsureNames /\ ~op.raised) =>
              /\ \A split \in Range(Splits), l \in Range(s) :
                    IsDir(fs, data_dir \o <<split, l>>)
              /\ \A p \in DOMAIN fs \ DOMAIN pre :
                    (Len(p) = 3 /\ p[1] = "training_data") => Name(p) \in Range(s)

\* setup.py created the whole tree where the collector and the trainer had
\* not run: directories for all six labels appeared in both splits.
C21_Witness ==
    /\ op.name = "setup_py_setup_directories" /\ ~op.raised
    /\ ~Exists(pre, data_dir \o <<"validation">>)
    /\ \A split \in Range(Splits), l \in Range(simple_landmarks) :
          IsDir(fs, data_dir \o <<split, l>>)

=============================================================================
